---- MODULE Spec2Model ----
(***************************************************************************)
(* Model of remove_repeated_phrases (src/main.py, lines 151-172): the      *)
(* subtitle repeat collapser.  The function splits its text into words,    *)
(* scans them left to right with a cursor i, and at every cursor position  *)
(* tries the phrase lengths n = max_words down to min_words; the first n   *)
(* whose two consecutive n-word windows are equal is collapsed to a single *)
(* copy, otherwise words[i] is passed through.                             *)
(*                                                                         *)
(* The model works on the word list (the value of text.split()); sequences *)
(* are 1-based here and 0-based in the source, so the source's words[j] is *)
(* words[j + 1] below while the cursor i keeps its 0-based value.          *)
(***************************************************************************)
EXTENDS Integers, Sequences, FiniteSets, TLC

\* ------------------------------------------------------------------ bounds
Tokens == {"a", "b", "c"}
MaxLen == 7
MaxWords == 3

\* the extension loop of line 163 makes at most Len(words) + 1 increments
\* when n >= 1; with n = 0 it never ends, and the model stops it here
MaxRepeats == MaxLen + 2

VARIABLES
  words,         \* words = text.split()                          (line 152)
  min_words,     \* parameter min_words                           (line 151)
  max_words,     \* parameter max_words                           (line 151)
  i,             \* the cursor                                    (line 153)
  result_words,  \* the words emitted so far                      (line 154)
  n,             \* the phrase length of the repeat being extended (line 157)
  phrase1,       \* the phrase of the repeat being extended       (line 159)
  repeats,       \* the counter of the extension loop             (line 162)
  pc,            \* "entry", "while" (line 155), "extend" (line 163), "done"
  steps          \* history: one record per finished iteration of the scan

vars == <<words, min_words, max_words, i, result_words, n, phrase1, repeats,
          pc, steps>>

\* ------------------------------------------------------- python primitives
Min(a, b) == IF a <= b THEN a ELSE b
Max(a, b) == IF a >= b THEN a ELSE b

\* a slice bound as Python normalises it: negative counts from the end,
\* then it is clamped to 0 .. len
SliceIndex(len, idx) == IF idx < 0 THEN Max(len + idx, 0) ELSE Min(idx, len)

\* s[a:b] with 0-based a, b
PySlice(s, a, b) ==
  LET lo == SliceIndex(Len(s), a)
      hi == SliceIndex(Len(s), b)
  IN  IF lo >= hi THEN <<>> ELSE SubSeq(s, lo + 1, hi)

\* s[idx] with a 0-based idx that is in range; a negative idx counts from
\* the end
PyIndexOffByOne(s, idx) == IF idx - 1 < 0 THEN s[Len(s) + idx] ELSE s[idx]
PyIndex(s, idx) == IF idx < 0 THEN s[Len(s) + idx + 1] ELSE s[idx + 1]

\* ------------------------------------------------- the pieces of the scan
\* words[i:i + n]                                          (lines 159, 160)
Phrase(w, c, len) == PySlice(w, c, c + len)

\* i + n * 2 <= len(words) and phrase1 == phrase2          (lines 158-161)
IsRepeatAtStrictRoom(w, c, len) ==
  /\ c + len * 2 < Len(w)
  /\ Phrase(w, c, len) = Phrase(w, c + len, len)
IsRepeatAt(w, c, len) ==
  /\ c + len * 2 <= Len(w)
  /\ Phrase(w, c, len) = Phrase(w, c + len, len)

\* the values of range(max_words, min_words - 1, -1)            (line 157)
WindowLengthsOffByOne(mn, mx) == (mn - 1)..mx
WindowLengths(mn, mx) == mn..mx

\* the for loop breaks at the first n, counting down, that is a repeat
FirstRepeatShortest(w, c, mn, mx) ==
  LET hits == {len \in WindowLengths(mn, mx) : IsRepeatAt(w, c, len)}
  IN  CHOOSE len \in hits : \A other \in hits : other >= len
FirstRepeat(w, c, mn, mx) ==
  LET hits == {len \in WindowLengths(mn, mx) : IsRepeatAt(w, c, len)}
  IN  CHOOSE len \in hits : \A other \in hits : other <= len

HasRepeatAt(w, c, mn, mx) ==
  \E len \in WindowLengths(mn, mx) : IsRepeatAt(w, c, len)

\* the condition of the extension loop                          (line 163)
ExtendCondNoCompare(w, c, len, r, p) == c + r * len <= Len(w)
ExtendCond(w, c, len, r, p) ==
  /\ c + r * len <= Len(w)
  /\ PySlice(w, c + (r - 1) * len, c + r * len) = p

\* i += (repeats - 1) * n                                       (line 166)
AdvanceOnePhrase(c, r, len) == c + len
AdvanceAllCounted(c, r, len) == c + r * len
Advance(c, r, len) == c + (r - 1) * len

\* result_words.extend(phrase1)                                 (line 165)
ExtendResultReplaces(res, p) == p
ExtendResult(res, p) == res \o p

\* result_words.append(words[i])                                (line 170)
AppendWord(res, w, c) == Append(res, PyIndex(w, c))

\* ---------------------------------------------------------------- actions
\* The scan reads tokens only to compare them for equality (lines 161 and
\* 163), so renaming the tokens of an input renames the tokens of every
\* state of its run and nothing else.  Inputs holds one input of each
\* renaming class: the one whose tokens first occur in the order a, b, c.
TokenRank(t) == CASE t = "a" -> 1 [] t = "b" -> 2 [] t = "c" -> 3

FirstOccurrencesInOrder(w) ==
  \A j \in 1..Len(w) :
    \/ TokenRank(w[j]) = 1
    \/ \E k \in 1..(j - 1) : TokenRank(w[k]) = TokenRank(w[j]) - 1

Inputs ==
  {w \in UNION {[1..len -> Tokens] : len \in 0..MaxLen} :
     FirstOccurrencesInOrder(w)}

Init ==
  /\ words \in Inputs
  /\ min_words \in 0..MaxWords
  /\ max_words \in 0..MaxWords
  /\ i = 0
  /\ result_words = <<>>
  /\ n = 0
  /\ phrase1 = <<>>
  /\ repeats = 0
  /\ pc = "entry"
  /\ steps = <<>>

\* lines 152-154: the function has no check of its bounds
Enter ==
  /\ pc = "entry"
  /\ i' = 0
  /\ result_words' = <<>>
  /\ pc' = "while"
  /\ UNCHANGED <<words, min_words, max_words, n, phrase1, repeats, steps>>

\* lines 155-158, 169-171: no n is a repeat at the cursor
Passthrough ==
  /\ pc = "while"
  /\ i < Len(words)
  /\ ~HasRepeatAt(words, i, min_words, max_words)
  /\ result_words' = AppendWord(result_words, words, i)
  /\ i' = i + 1
  /\ steps' = Append(steps, [kind |-> "pass", at |-> i, n |-> 1, to |-> i + 1,
                             emitted |-> Len(result_words)])
  /\ UNCHANGED <<words, min_words, max_words, n, phrase1, repeats, pc>>

\* lines 155-162: the first n, from max_words down, that is a repeat
FoundRepeat ==
  /\ pc = "while"
  /\ i < Len(words)
  /\ HasRepeatAt(words, i, min_words, max_words)
  /\ n' = FirstRepeat(words, i, min_words, max_words)
  /\ phrase1' = Phrase(words, i, n')
  /\ repeats' = 2
  /\ pc' = "extend"
  /\ UNCHANGED <<words, min_words, max_words, i, result_words, steps>>

\* lines 163-164: one more copy
Extend ==
  /\ pc = "extend"
  /\ ExtendCond(words, i, n, repeats, phrase1)
  /\ repeats < MaxRepeats
  /\ repeats' = repeats + 1
  /\ UNCHANGED <<words, min_words, max_words, i, result_words, n, phrase1,
                 pc, steps>>

\* lines 165-168: emit one copy and move past all of them
Collapse ==
  /\ pc = "extend"
  /\ ~ExtendCond(words, i, n, repeats, phrase1)
  /\ result_words' = ExtendResult(result_words, phrase1)
  /\ i' = Advance(i, repeats, n)
  /\ steps' = Append(steps, [kind |-> "collapse", at |-> i, n |-> n,
                             to |-> i', emitted |-> Len(result_words)])
  /\ pc' = "while"
  /\ UNCHANGED <<words, min_words, max_words, n, phrase1, repeats>>

\* lines 155, 172: the cursor is at the end; the returned string is
\* result_words joined by single spaces, whose words are result_words
Return ==
  /\ pc = "while"
  /\ ~(i < Len(words))
  /\ pc' = "done"
  /\ UNCHANGED <<words, min_words, max_words, i, result_words, n, phrase1,
                 repeats, steps>>

Next ==
  \/ Enter
  \/ Passthrough
  \/ FoundRepeat
  \/ Extend
  \/ Collapse
  \/ Return

Spec == Init /\ [][Next]_vars

\* the function runs to completion once called: no step waits on anything
FairSpec == Spec /\ WF_vars(Next)

\* ------------------------------------------- vocabulary of the properties
\* 1 <= minWords <= maxWords
ValidBounds == 1 <= min_words /\ min_words <= max_words

\* two consecutive len-token windows of w at 0-based position c are equal,
\* element by element
ClaimRepeatAt(w, c, len) ==
  /\ c + 2 * len <= Len(w)
  /\ \A k \in 1..len : w[c + k] = w[c + len + k]

\* w has two consecutive equal windows of some length in mn..mx
ClaimHasRepeat(w, mn, mx) ==
  \E len \in mn..mx : \E c \in 0..Len(w) : ClaimRepeatAt(w, c, len)

\* the tokens of w from 0-based position c on
TailFrom(w, c) == SubSeq(w, c + 1, Len(w))

\* s is a subsequence of t: its tokens are tokens of t at strictly
\* increasing positions
RECURSIVE Embeds(_, _, _, _)
Embeds(s, t, a, b) ==
  IF a > Len(s) THEN TRUE
  ELSE IF b > Len(t) THEN FALSE
  ELSE IF s[a] = t[b] THEN Embeds(s, t, a + 1, b + 1)
  ELSE Embeds(s, t, a, b + 1)

IsSubsequence(s, t) == Embeds(s, t, 1, 1)

IsPrefix(s, t) == Len(s) <= Len(t) /\ SubSeq(t, 1, Len(s)) = s

\* the number of consecutive len-token blocks of w from position c on that
\* equal the first one (the first one counted), len >= 1
RunLength(w, c, len) ==
  CHOOSE k \in 1..(Len(w) + 1) :
    /\ c + k * len <= Len(w)
    /\ \A j \in 1..(k - 1) :
         SubSeq(w, c + j * len + 1, c + (j + 1) * len) =
         SubSeq(w, c + 1, c + len)
    /\ \/ c + (k + 1) * len > Len(w)
       \/ SubSeq(w, c + k * len + 1, c + (k + 1) * len) #
          SubSeq(w, c + 1, c + len)

\* the steps of the scan, seen from outside
PassStep == pc = "while" /\ pc' = "while" /\ i' # i
CollapseStep == pc = "extend" /\ pc' = "while"

StepsOf(kind) == {s \in {steps[j] : j \in 1..Len(steps)} : s.kind = kind}

\* ------------------------------------------------------------------- C1
\* C1: with 1 <= minWords <= maxWords, after every step of the scan the
\* output so far is a subsequence of the input (of the part of the input
\* the cursor has passed): no token is introduced and none is reordered.
C1_OutputIsSubsequence ==
  ValidBounds =>
    /\ IsSubsequence(result_words, words)
    /\ IsSubsequence(result_words, SubSeq(words, 1, Min(i, Len(words))))

C1_Witness ==
  /\ ValidBounds
  /\ pc = "done"
  /\ StepsOf("pass") # {}
  /\ StepsOf("collapse") # {}
  /\ Len(result_words) < Len(words)

\* ------------------------------------------------------------------- C2
\* C2: malformed bounds (minWords < 1 or maxWords < minWords) are rejected
\* before the scan: the loop of line 155 is never reached, nothing is
\* emitted and no result is returned.
C2_MalformedBoundsRejected ==
  (min_words < 1 \/ max_words < min_words) =>
    /\ pc \notin {"while", "extend", "done"}
    /\ result_words = <<>>

\* ------------------------------------------------------------------- C3
\* C3: an input without two consecutive equal windows of a length in
\* minWords..maxWords is returned unchanged (the output so far is always
\* the part of the input the cursor has passed); an empty input gives an
\* empty output, and an input shorter than minWords is returned unchanged.
C3_CleanInputUnchanged ==
  /\ ~ClaimHasRepeat(words, min_words, max_words) =>
       /\ result_words = SubSeq(words, 1, i)
       /\ pc = "done" => result_words = words
  /\ (pc = "done" /\ words = <<>>) => result_words = <<>>
  /\ (pc = "done" /\ min_words > Len(words)) => result_words = words

C3_Witness ==
  /\ ValidBounds
  /\ pc = "done"
  /\ ~ClaimHasRepeat(words, min_words, max_words)
  /\ Len(words) >= 2 * max_words
  /\ Len(words) >= 4
  /\ result_words = words

\* ------------------------------------------------------------------- C4
\* C4 as stated: with valid bounds the returned output has no two
\* consecutive equal windows of a length in minWords..maxWords.
C4_OutputHasNoRepeat ==
  (ValidBounds /\ pc = "done") =>
    ~ClaimHasRepeat(result_words, min_words, max_words)

\* C4 as amended: repeats are collapsed where the cursor stands in the
\* input, not in the output: a token is passed through only where no two
\* consecutive equal windows (of a length in minWords..maxWords) of the
\* input start at the cursor, a collapse emits its phrase once for at least
\* two copies of it, and the output is free of consecutive equal windows
\* when minWords = maxWords = 1.
C4_CollapsedAtCursor ==
  ValidBounds =>
    /\ \A s \in StepsOf("pass") :
         \A len \in min_words..max_words : ~ClaimRepeatAt(words, s.at, len)
    /\ \A s \in StepsOf("collapse") :
         /\ s.to - s.at >= 2 * s.n
         /\ ClaimRepeatAt(words, s.at, s.n)
    /\ (min_words = 1 /\ max_words = 1) => ~ClaimHasRepeat(result_words, 1, 1)
    /\ (pc = "done" /\ ClaimHasRepeat(words, min_words, max_words)) =>
         Len(result_words) < Len(words)

C4_Witness ==
  /\ ValidBounds
  /\ pc = "done"
  /\ StepsOf("collapse") # {}
  /\ ClaimHasRepeat(result_words, min_words, max_words)

\* ------------------------------------------------------------------- C5
\* C5: the phrase length n of a confirmed repeat at cursor i is the largest
\* length in minWords..maxWords whose two consecutive windows at i are
\* equal.
C5_LongestFirst ==
  pc = "extend" =>
    /\ n \in min_words..max_words
    /\ ClaimRepeatAt(words, i, n)
    /\ \A len \in (n + 1)..max_words : ~ClaimRepeatAt(words, i, len)

C5_Witness ==
  /\ pc = "extend"
  /\ ValidBounds
  /\ \E len \in min_words..(n - 1) : ClaimRepeatAt(words, i, len)
  /\ \E len \in (n + 1)..max_words : i + 2 * len <= Len(words)

\* ------------------------------------------------------------------- C6
\* C6: a collapse at cursor i with phrase length n, where k >= 2 is the
\* number of consecutive n-token blocks from i on that equal the phrase,
\* emits the phrase once and moves the cursor to i + k * n; there either
\* fewer than n tokens remain or the next block differs from the phrase.
C6_MultiCycleCollapse ==
  [][(ValidBounds /\ CollapseStep) =>
       LET k == RunLength(words, i, n)
       IN  /\ k >= 2
           /\ result_words' = result_words \o SubSeq(words, i + 1, i + n)
           /\ i' = i + k * n
           /\ \/ i' + n > Len(words)
              \/ SubSeq(words, i' + 1, i' + n) # SubSeq(words, i + 1, i + n)]_vars

C6_Witness ==
  /\ ValidBounds
  /\ \E s \in StepsOf("collapse") :
       /\ s.to - s.at >= 3 * s.n
       /\ s.to + s.n <= Len(words)

\* ------------------------------------------------------------------- C7
\* C7: with valid bounds every iteration of the scan moves the cursor
\* forward (by 1 on a passthrough, by at least 2n on a collapse), the
\* extension loop ends, the cursor never exceeds len(tokens), and the scan
\* ends with the cursor at len(tokens).
C7_Terminates ==
  /\ [](ValidBounds => (i <= Len(words) /\ (pc = "done" => i = Len(words))))
  /\ [][(ValidBounds /\ PassStep) => i' = i + 1]_vars
  /\ [][(ValidBounds /\ CollapseStep) => (n >= 1 /\ i' >= i + 2 * n)]_vars
  /\ (ValidBounds /\ pc = "extend") ~> (pc = "while")
  /\ ValidBounds ~> (pc = "done")

C7_Witness ==
  /\ ValidBounds
  /\ pc = "done"
  /\ i = Len(words)
  /\ Len(steps) >= 3
  /\ StepsOf("collapse") # {}

\* ------------------------------------------------------------------- C8
\* C8: when a collapse leaves the cursor at c and tokens[c..] has no two
\* consecutive equal windows of a length in minWords..maxWords, the
\* returned output ends with the collapsed phrase followed by tokens[c..].
C8_TrailingPassthrough ==
  (ValidBounds /\ pc = "done") =>
    \A s \in StepsOf("collapse") :
      LET c == s.at + RunLength(words, s.at, s.n) * s.n
      IN  ~ClaimHasRepeat(TailFrom(words, c), min_words, max_words) =>
            TailFrom(result_words, s.emitted) =
              SubSeq(words, s.at + 1, s.at + s.n) \o TailFrom(words, c)

C8_Witness ==
  /\ ValidBounds
  /\ pc = "done"
  /\ \E s \in StepsOf("collapse") :
       /\ Len(words) - s.to >= 2 * min_words
       /\ Len(words) - s.to >= 2
       /\ ~ClaimHasRepeat(TailFrom(words, s.to), min_words, max_words)

\* ------------------------------------------------------------------- C9
\* C9: a step that moves the cursor emits the tokens at the cursor, and the
\* tokens it drops are whole copies of the emitted phrase: the phrase has a
\* length n in minWords..maxWords, at least one copy follows it, and every
\* dropped token equals the token n places before it.
C9_DropsOnlyRepeats ==
  [][(i' # i) =>
       LET added == Len(result_words') - Len(result_words)
       IN  /\ added >= 1
           /\ i' >= i + added
           /\ i' <= Len(words)
           /\ result_words' = result_words \o SubSeq(words, i + 1, i + added)
           /\ (i' > i + added) =>
                /\ added \in min_words..max_words
                /\ (i' - i) % added = 0
                /\ \A p \in (i + added + 1)..i' : words[p] = words[p - added]]_vars

C9_Witness ==
  /\ ValidBounds
  /\ pc = "done"
  /\ min_words >= 2
  /\ StepsOf("collapse") # {}
  /\ ClaimHasRepeat(result_words, 1, min_words - 1)

\* ------------------------------------------------------------------ C10
\* C10: the cursor never decreases and the output only grows by appending.
C10_NoBacktracking ==
  [][i' >= i /\ IsPrefix(result_words, result_words')]_vars

\* a returned output that still holds a repeat which starts at a token that
\* was passed through
C10_Witness ==
  /\ ValidBounds
  /\ pc = "done"
  /\ \E s \in StepsOf("pass") :
       \E len \in min_words..max_words :
         ClaimRepeatAt(result_words, s.emitted, len)

====
